---- MODULE Spec2Model ----
(***************************************************************************)
(* Model of the Spin-to-Win wheel (src/src/App.tsx): the inventory store,  *)
(* the weighted selector, the spin controller and the admin gate.          *)
(*                                                                         *)
(* Numbers.  Stock counts, weights and angles are JavaScript numbers; the  *)
(* code produces halves (wedge centres at 22.5 + 45 i degrees, stock       *)
(* drafts such as 2.5).  Every JavaScript number x is therefore held as    *)
(* the integer 2x: N(20) is the number 20, the integer 5 is the number     *)
(* 2.5.  Sign tests and comparisons are unaffected by the scaling.         *)
(***************************************************************************)
EXTENDS Integers, Sequences, FiniteSets, TLC

VARIABLES
    phase,           \* "unmounted" | "mounted" | "crashed" (uncaught exception)
    storage,         \* localStorage item INVENTORY_KEY
    getItemThrows,   \* localStorage.getItem throws (storage disabled)
    setItemThrows,   \* localStorage.setItem throws (quota / storage disabled)
    spinning,        \* useState spinning
    winner,          \* useState winner
    lastWinner,      \* useState lastWinner
    rotation,        \* rotationRef.current
    inventory,       \* useState inventory
    timers,          \* pending window.setTimeout callbacks (their `picked` index)
    showManage,      \* useState showManage
    adminUnlocked,   \* useState adminUnlocked
    adminPass,       \* useState adminPass
    adminError,      \* useState adminError
    inventoryDraft,  \* useState inventoryDraft
    op,              \* history: the handler that ran last
    spinCalls,       \* history: number of doSpin invocations
    failedAttempts,  \* history: wrong passwords since the panel was opened
    editedLabels,    \* history: stock fields typed into since the draft was copied
    items,           \* selector harness: catalog argument
    inv,             \* selector harness: inventory argument
    rnd,             \* selector harness: numerator of the Math.random() draw
    pickResult       \* selector harness: << >>, then << the returned index >>

appVars == <<phase, storage, getItemThrows, setItemThrows, spinning, winner,
             lastWinner, rotation, inventory, timers, showManage,
             adminUnlocked, adminPass, adminError, inventoryDraft, op,
             spinCalls, failedAttempts, editedLabels>>
pickVars == <<items, inv, rnd, pickResult>>
vars == <<appVars, pickVars>>

----------------------------------------------------------------------------
(* Bounds of the model *)

\* doSpin invocations explored (rotation and stock only change through them)
MaxSpinCalls == 2
\* wrong passwords explored per opening of the panel
MaxAttempts == 2
\* Math.random() is drawn from { a / RandDen : a \in 0 .. RandDen - 1 }
RandDen == 4
\* length of the catalogs handed to the selector harness
MaxItems == 2

----------------------------------------------------------------------------
(* JavaScript numbers, held as twice their value *)

N(x) == 2 * x

null == "null"

MathMax(a, b) == IF a >= b THEN a ELSE b

\* mutant: rounds up
MathFloor_Ceil(x) == 2 * ((x + 1) \div 2)

MathFloor(x) == 2 * (x \div 2)

\* the % operator: the remainder takes the sign of the dividend
JsRem(a, b) == IF a >= 0 THEN a % b ELSE 0 - ((0 - a) % b)

IsInteger(x) == x % 2 = 0

----------------------------------------------------------------------------
(* Catalog and inventory *)

PRIZES ==
    << [label |-> "Tote Bag"],
       [label |-> "Phone Holder"],
       [label |-> "Luggage Tag"],
       [label |-> "Pouch"],
       [label |-> "Phone Ring"],
       [label |-> "Ez-link Card"],
       [label |-> "Towel"],
       [label |-> "Luggage Tag"] >>

ADMIN_PASSWORD == "1234"

DEFAULT_INVENTORY ==
    ("Tote Bag" :> N(20)) @@ ("Phone Holder" :> N(30)) @@
    ("Luggage Tag" :> N(50)) @@ ("Pouch" :> N(25)) @@
    ("Phone Ring" :> N(40)) @@ ("Ez-link Card" :> N(15)) @@
    ("Towel" :> N(10))

EmptyObject == [l \in {} |-> 0]

\* obj[label] ?? 0
Get(obj, label) == IF label \in DOMAIN obj THEN obj[label] ELSE 0

\* { ...base, ...over }
Spread(base, over) == over @@ base

\* the raw strings the storage item can hold
NoItem == [kind |-> "missing", obj |-> EmptyObject]
EmptyString == [kind |-> "empty", obj |-> EmptyObject]
Garbage == [kind |-> "garbage", obj |-> EmptyObject]
JSONstringify(obj) == [kind |-> "json", obj |-> obj]

loadInventory(raw, readThrows) ==
    IF readThrows THEN DEFAULT_INVENTORY
    ELSE IF raw.kind \in {"missing", "empty"} THEN DEFAULT_INVENTORY
    ELSE IF raw.kind = "garbage" THEN DEFAULT_INVENTORY
    ELSE Spread(DEFAULT_INVENTORY, raw.obj)

\* the outcome of saveInventory(inv): the item written, or the exception
saveInventory(obj, old, writeThrows) ==
    IF writeThrows THEN [threw |-> TRUE, item |-> old]
    ELSE [threw |-> FALSE, item |-> JSONstringify(obj)]

uniquePrizeLabels == { PRIZES[i].label : i \in DOMAIN PRIZES }

anyStockLeft(inventory_) ==
    \E label \in uniquePrizeLabels : Get(inventory_, label) > 0

----------------------------------------------------------------------------
(* Weighted selector.  Indices are the code's, from 0: items[i] is the     *)
(* (i+1)-th element of the sequence.                                       *)

Weight(p) == MathMax(0, IF "weight" \in DOMAIN p THEN p.weight ELSE N(1))

\* mutant: the stock test is dropped
RECURSIVE EligibleFrom_NoStockTest(_, _, _)
EligibleFrom_NoStockTest(items_, inventory_, i) ==
    IF i >= Len(items_) THEN << >>
    ELSE LET w == Weight(items_[i + 1])
         IN  (IF w > 0 THEN << [idx |-> i, w |-> w] >> ELSE << >>)
             \o EligibleFrom_NoStockTest(items_, inventory_, i + 1)

RECURSIVE EligibleFrom(_, _, _)
EligibleFrom(items_, inventory_, i) ==
    IF i >= Len(items_) THEN << >>
    ELSE LET remaining == Get(inventory_, items_[i + 1].label)
             w == Weight(items_[i + 1])
         IN  (IF remaining <= 0 THEN << >>
              ELSE IF w > 0 THEN << [idx |-> i, w |-> w] >> ELSE << >>)
             \o EligibleFrom(items_, inventory_, i + 1)

RECURSIVE SumW(_)
SumW(eligible) ==
    IF eligible = << >> THEN 0 ELSE Head(eligible).w + SumW(Tail(eligible))

\* r is held multiplied by RandDen: r = (a / RandDen) * total
RECURSIVE Scan(_, _, _)
Scan(eligible, k, r) ==
    IF k > Len(eligible) THEN eligible[Len(eligible)].idx
    ELSE LET r2 == r - eligible[k].w * RandDen
         IN  IF r2 <= 0 THEN eligible[k].idx ELSE Scan(eligible, k + 1, r2)

weightedPickIndexAvailable(items_, inventory_, a) ==
    LET eligible == EligibleFrom(items_, inventory_, 0)
    IN  IF Len(eligible) = 0 THEN -1
        ELSE Scan(eligible, 1, a * SumW(eligible))

----------------------------------------------------------------------------
(* Wheel geometry *)

n == Len(PRIZES)

centerDeg(i) == (N(360) * (2 * i + 1)) \div (2 * n)

fullRotations(t) == 40 + t

finalDeg(current, pickedIdx, t, jitter) ==
    LET currentMod == JsRem(JsRem(current, N(360)) + N(360), N(360))
        targetMod == JsRem(N(360) - centerDeg(pickedIdx) + N(360), N(360))
        delta == JsRem(targetMod - currentMod + N(360), N(360))
    IN  current + fullRotations(t) * N(360) + delta + jitter

----------------------------------------------------------------------------
(* Inputs *)

AllZero == [label \in uniquePrizeLabels |-> 0]

\* objects a previous session, an older version or a user left in storage
StoredObjects ==
    { [AllZero EXCEPT !["Towel"] = N(1)],
      ("Towel" :> N(-3)) @@ ("Pouch" :> 5),
      ("Pouch" :> N(1)) @@ ("Sticker" :> N(7)) }

StoredItems ==
    {NoItem, EmptyString, Garbage} \cup { JSONstringify(o) : o \in StoredObjects }

\* Math.floor(Math.random() * 3)
TurnDraws == 0 .. 2

\* Math.random() * 10 - 5, in [-5, 5)
Jitters == {N(-5), 0, 9}

\* the draws explored together with the admin panel
PanelDraws == {0, RandDen - 1}
PanelTurnDraws == {0}
PanelJitters == {9}

\* numerators of the Math.random() draw of the selector
Draws == 0 .. RandDen - 1

\* text typed into the password field
PasswordInputs == {"1234", "123"}

\* text typed into a stock field, and the fields typed into
DraftInputs == {"", "abc", "-3", "2.5", "1"}
EditLabels == {"Pouch"}

\* Number(value) for the texts above; NaN is [nan |-> TRUE]
JsNumber(value) ==
    CASE value = "-3" -> [nan |-> FALSE, num |-> N(-3)]
      [] value = "2.5" -> [nan |-> FALSE, num |-> 5]
      [] value = "1" -> [nan |-> FALSE, num |-> N(1)]
      [] value = "" -> [nan |-> FALSE, num |-> 0]
      [] OTHER -> [nan |-> TRUE, num |-> 0]

----------------------------------------------------------------------------
(* The component *)

PickIdle ==
    /\ items = << >>
    /\ inv = EmptyObject
    /\ rnd = 0
    /\ pickResult = << >>

Init ==
    /\ phase = "unmounted"
    /\ storage \in StoredItems
    /\ getItemThrows \in BOOLEAN
    /\ setItemThrows \in BOOLEAN
    /\ spinning = FALSE
    /\ winner = null
    /\ lastWinner = null
    /\ rotation = 0
    /\ inventory = EmptyObject
    /\ timers = << >>
    /\ showManage = FALSE
    /\ adminUnlocked = FALSE
    /\ adminPass = ""
    /\ adminError = null
    /\ inventoryDraft = EmptyObject
    /\ op = "none"
    /\ spinCalls = 0
    /\ failedAttempts = 0
    /\ editedLabels = {}
    /\ PickIdle

\* setInventory(next), then the effect that saves every new inventory
setInventory(next) ==
    LET saved == saveInventory(next, storage, setItemThrows)
    IN  /\ inventory' = next
        /\ storage' = saved.item
        /\ phase' = IF saved.threw THEN "crashed" ELSE phase

\* first render: the useState initialisers and the first run of the effect
Mount ==
    /\ phase = "unmounted"
    /\ LET loaded == loadInventory(storage, getItemThrows)
           saved == saveInventory(loaded, storage, setItemThrows)
       IN  /\ inventory' = loaded
           /\ inventoryDraft' = loaded
           /\ storage' = saved.item
           /\ phase' = IF saved.threw THEN "crashed" ELSE "mounted"
    /\ op' = "mount"
    /\ UNCHANGED <<getItemThrows, setItemThrows, spinning, winner, lastWinner,
                   rotation, timers, showManage, adminUnlocked, adminPass,
                   adminError, spinCalls, failedAttempts, editedLabels,
                   pickVars>>

openManage ==
    /\ phase = "mounted"
    /\ showManage' = TRUE
    /\ adminUnlocked' = FALSE
    /\ adminPass' = ""
    /\ adminError' = null
    /\ inventoryDraft' = inventory
    /\ failedAttempts' = 0
    /\ editedLabels' = {}
    /\ op' = "openManage"
    /\ UNCHANGED <<phase, storage, getItemThrows, setItemThrows, spinning,
                   winner, lastWinner, rotation, inventory, timers, spinCalls,
                   pickVars>>

\* the four state updates of closeManage
closeManageUpdates ==
    /\ showManage' = FALSE
    /\ adminUnlocked' = FALSE
    /\ adminPass' = ""
    /\ adminError' = null
    /\ failedAttempts' = 0

\* Cancel and Close are rendered inside the open panel
closeManage ==
    /\ phase = "mounted"
    /\ showManage
    /\ closeManageUpdates
    /\ op' = "closeManage"
    /\ UNCHANGED <<phase, storage, getItemThrows, setItemThrows, spinning,
                   winner, lastWinner, rotation, inventory, timers,
                   inventoryDraft, spinCalls, editedLabels, pickVars>>

\* onChange of the password field, rendered while the panel is locked
setAdminPass(value) ==
    /\ phase = "mounted"
    /\ showManage /\ ~adminUnlocked
    /\ adminPass' = value
    /\ op' = "setAdminPass"
    /\ UNCHANGED <<phase, storage, getItemThrows, setItemThrows, spinning,
                   winner, lastWinner, rotation, inventory, timers, showManage,
                   adminUnlocked, adminError, inventoryDraft, spinCalls,
                   failedAttempts, editedLabels, pickVars>>

\* mutant: the password is compared by prefix
submitAdminPassword_Prefix ==
    /\ phase = "mounted"
    /\ showManage /\ ~adminUnlocked
    /\ IF adminPass \in {"1", "12", "123", "1234"}
       THEN /\ adminUnlocked' = TRUE
            /\ adminError' = null
            /\ failedAttempts' = failedAttempts
       ELSE /\ failedAttempts < MaxAttempts
            /\ adminError' = "Wrong password."
            /\ adminUnlocked' = FALSE
            /\ failedAttempts' = failedAttempts + 1
    /\ op' = "submitAdminPassword"
    /\ UNCHANGED <<phase, storage, getItemThrows, setItemThrows, spinning,
                   winner, lastWinner, rotation, inventory, timers, showManage,
                   adminPass, inventoryDraft, spinCalls, editedLabels,
                   pickVars>>

\* Unlock is rendered while the panel is locked
submitAdminPassword ==
    /\ phase = "mounted"
    /\ showManage /\ ~adminUnlocked
    /\ IF adminPass = ADMIN_PASSWORD
       THEN /\ adminUnlocked' = TRUE
            /\ adminError' = null
            /\ failedAttempts' = failedAttempts
       ELSE /\ failedAttempts < MaxAttempts
            /\ adminError' = "Wrong password."
            /\ adminUnlocked' = FALSE
            /\ failedAttempts' = failedAttempts + 1
    /\ op' = "submitAdminPassword"
    /\ UNCHANGED <<phase, storage, getItemThrows, setItemThrows, spinning,
                   winner, lastWinner, rotation, inventory, timers, showManage,
                   adminPass, inventoryDraft, spinCalls, editedLabels,
                   pickVars>>

\* mutant: the clamp at zero is dropped
cleaned_NoClamp(draft, label) ==
    IF label \in DOMAIN draft THEN MathFloor(draft[label]) ELSE 0

\* Number.isFinite(raw) ? Math.max(0, Math.floor(raw)) : 0
cleaned(draft, label) ==
    IF label \in DOMAIN draft THEN MathMax(0, MathFloor(draft[label])) ELSE 0

\* Save is rendered while the panel is unlocked
saveDraft ==
    /\ phase = "mounted"
    /\ showManage /\ adminUnlocked
    /\ setInventory([label \in DOMAIN inventory \cup uniquePrizeLabels |->
                        IF label \in uniquePrizeLabels
                        THEN cleaned(inventoryDraft, label)
                        ELSE inventory[label]])
    /\ closeManageUpdates
    /\ op' = "saveDraft"
    /\ UNCHANGED <<getItemThrows, setItemThrows, spinning, winner, lastWinner,
                   rotation, timers, inventoryDraft, spinCalls, editedLabels,
                   pickVars>>

\* onChange of a stock field, rendered while the panel is unlocked
setDraftValue(label, value) ==
    /\ phase = "mounted"
    /\ showManage /\ adminUnlocked
    /\ LET num == IF value = "" THEN [nan |-> FALSE, num |-> 0]
                  ELSE JsNumber(value)
       IN  inventoryDraft' =
               Spread(inventoryDraft, label :> (IF num.nan THEN 0 ELSE num.num))
    /\ editedLabels' = editedLabels \cup {label}
    /\ op' = "setDraftValue"
    /\ UNCHANGED <<phase, storage, getItemThrows, setItemThrows, spinning,
                   winner, lastWinner, rotation, inventory, timers, showManage,
                   adminUnlocked, adminPass, adminError, spinCalls,
                   failedAttempts, pickVars>>

\* "Reset changes", rendered while the panel is unlocked
resetDraft ==
    /\ phase = "mounted"
    /\ showManage /\ adminUnlocked
    /\ inventoryDraft' = inventory
    /\ editedLabels' = {}
    /\ op' = "resetDraft"
    /\ UNCHANGED <<phase, storage, getItemThrows, setItemThrows, spinning,
                   winner, lastWinner, rotation, inventory, timers, showManage,
                   adminUnlocked, adminPass, adminError, spinCalls,
                   failedAttempts, pickVars>>

\* mutant: the test of `spinning` is dropped
doSpin_NoBusyTest(a, t, jitter) ==
    /\ phase = "mounted"
    /\ spinCalls < MaxSpinCalls
    /\ spinCalls' = spinCalls + 1
    /\ op' = "doSpin"
    /\ IF ~anyStockLeft(inventory)
       THEN UNCHANGED <<spinning, winner, rotation, timers>>
       ELSE LET pickedIdx == weightedPickIndexAvailable(PRIZES, inventory, a)
            IN  IF pickedIdx = -1
                THEN /\ winner' = "Out of stock"
                     /\ spinning' = FALSE
                     /\ UNCHANGED <<rotation, timers>>
                ELSE /\ winner' = null
                     /\ spinning' = TRUE
                     /\ rotation' = finalDeg(rotation, pickedIdx, t, jitter)
                     /\ timers' = Append(timers, pickedIdx)
    /\ UNCHANGED <<phase, storage, getItemThrows, setItemThrows, lastWinner,
                   inventory, showManage, adminUnlocked, adminPass, adminError,
                   inventoryDraft, failedAttempts, editedLabels, pickVars>>

\* a: selector draw, t: turn draw, jitter: the jitter drawn
doSpin(a, t, jitter) ==
    /\ phase = "mounted"
    /\ spinCalls < MaxSpinCalls
    /\ spinCalls' = spinCalls + 1
    /\ op' = "doSpin"
    /\ IF spinning \/ ~anyStockLeft(inventory)
       THEN UNCHANGED <<spinning, winner, rotation, timers>>
       ELSE LET pickedIdx == weightedPickIndexAvailable(PRIZES, inventory, a)
            IN  IF pickedIdx = -1
                THEN /\ winner' = "Out of stock"
                     /\ spinning' = FALSE
                     /\ UNCHANGED <<rotation, timers>>
                ELSE /\ winner' = null
                     /\ spinning' = TRUE
                     /\ rotation' = finalDeg(rotation, pickedIdx, t, jitter)
                     /\ timers' = Append(timers, pickedIdx)
    /\ UNCHANGED <<phase, storage, getItemThrows, setItemThrows, lastWinner,
                   inventory, showManage, adminUnlocked, adminPass, adminError,
                   inventoryDraft, failedAttempts, editedLabels, pickVars>>

\* mutant: the stock is not decremented
Settle_NoDecrement ==
    /\ phase = "mounted"
    /\ timers # << >>
    /\ LET label == PRIZES[Head(timers) + 1].label
       IN  /\ setInventory(inventory)
           /\ winner' = label
           /\ lastWinner' = label
    /\ spinning' = FALSE
    /\ timers' = Tail(timers)
    /\ op' = "settle"
    /\ UNCHANGED <<getItemThrows, setItemThrows, rotation, showManage,
                   adminUnlocked, adminPass, adminError, inventoryDraft,
                   spinCalls, failedAttempts, editedLabels, pickVars>>

\* the setTimeout callback of doSpin fires
Settle ==
    /\ phase = "mounted"
    /\ timers # << >>
    /\ LET label == PRIZES[Head(timers) + 1].label
       IN  /\ setInventory(Spread(inventory,
                  label :> MathMax(0, Get(inventory, label) - N(1))))
           /\ winner' = label
           /\ lastWinner' = label
    /\ spinning' = FALSE
    /\ timers' = Tail(timers)
    /\ op' = "settle"
    /\ UNCHANGED <<getItemThrows, setItemThrows, rotation, showManage,
                   adminUnlocked, adminPass, adminError, inventoryDraft,
                   spinCalls, failedAttempts, editedLabels, pickVars>>

\* "Next person" is rendered while a winner is shown
nextPerson ==
    /\ phase = "mounted"
    /\ winner # null
    /\ winner' = null
    /\ op' = "nextPerson"
    /\ UNCHANGED <<phase, storage, getItemThrows, setItemThrows, spinning,
                   lastWinner, rotation, inventory, timers, showManage,
                   adminUnlocked, adminPass, adminError, inventoryDraft,
                   spinCalls, failedAttempts, editedLabels, pickVars>>

Next ==
    \/ Mount
    \/ openManage
    \/ closeManage
    \/ \E value \in PasswordInputs : setAdminPass(value)
    \/ submitAdminPassword
    \/ \E label \in EditLabels, value \in DraftInputs : setDraftValue(label, value)
    \/ resetDraft
    \/ saveDraft
    \/ \E a \in PanelDraws, t \in PanelTurnDraws, jitter \in PanelJitters :
           doSpin(a, t, jitter)
    \/ Settle
    \/ nextPerson

Spec == Init /\ [][Next]_vars

\* the wheel alone, over every draw
NextWheel ==
    \/ Mount
    \/ \E a \in Draws, t \in TurnDraws, jitter \in Jitters : doSpin(a, t, jitter)
    \/ Settle
    \/ nextPerson

WheelSpec == Init /\ [][NextWheel]_vars

\* the timer of a started spin fires after its 3.5 s
FairWheelSpec == WheelSpec /\ WF_vars(Settle)

----------------------------------------------------------------------------
(* The selector alone, over small catalogs and inventories *)

PickLabels == {"Towel", "Pouch"}

\* weights: absent, negative, zero, a half, two
PickWeights == {N(-1), 0, 1, N(2)}

PickPrizes ==
    [label : PickLabels] \cup [label : PickLabels, weight : PickWeights]

PickCatalogs == UNION { [1 .. len -> PickPrizes] : len \in 1 .. MaxItems }

PickCounts == {N(-1), 0, 3, N(2)}

PickInventories ==
    UNION { [labels -> PickCounts] : labels \in SUBSET PickLabels }

AppIdle ==
    /\ phase = "unmounted"
    /\ storage = NoItem
    /\ getItemThrows = FALSE
    /\ setItemThrows = FALSE
    /\ spinning = FALSE
    /\ winner = null
    /\ lastWinner = null
    /\ rotation = 0
    /\ inventory = EmptyObject
    /\ timers = << >>
    /\ showManage = FALSE
    /\ adminUnlocked = FALSE
    /\ adminPass = ""
    /\ adminError = null
    /\ inventoryDraft = EmptyObject
    /\ op = "none"
    /\ spinCalls = 0
    /\ failedAttempts = 0
    /\ editedLabels = {}

InitPick ==
    /\ AppIdle
    /\ \/ /\ items \in PickCatalogs
          /\ inv \in PickInventories
       \/ /\ items = PRIZES
          /\ inv \in {DEFAULT_INVENTORY, AllZero} \cup
                     { loadInventory(s, FALSE) : s \in StoredItems }
    /\ rnd \in Draws
    /\ pickResult = << >>

Pick ==
    /\ pickResult = << >>
    /\ pickResult' = << weightedPickIndexAvailable(items, inv, rnd) >>
    /\ UNCHANGED <<appVars, items, inv, rnd>>

PickSpec == InitPick /\ [][Pick]_vars

----------------------------------------------------------------------------
(* Properties *)

TowelOnly == [AllZero EXCEPT !["Towel"] = N(1)]

\* C1: doSpin starts a spin only from Idle with some label in stock; called
\* while Spinning, or with every count at zero, it changes nothing and
\* schedules no timer, so at most one settlement is pending.
C1_SpinReentrancy ==
    /\ [](Len(timers) <= 1)
    /\ [][/\ (~spinning /\ spinning') =>
                 \E label \in uniquePrizeLabels : inventory[label] > 0
          /\ (op' = "doSpin" /\
                (spinning \/ \A label \in uniquePrizeLabels : inventory[label] <= 0))
             => UNCHANGED <<inventory, winner, rotation, spinning, timers>>]_vars

\* a second doSpin was invoked while the first spin was still in flight
C1_Witness ==
    /\ op = "doSpin" /\ spinCalls = 2
    /\ spinning /\ lastWinner = null /\ Len(timers) = 1

\* C2: every inventory count is a non-negative integer in every state.
C2_CountsNonNegativeIntegers ==
    \A label \in DOMAIN inventory :
        inventory[label] >= 0 /\ IsInteger(inventory[label])

\* C3: the selector returns -1 exactly when no entry has count > 0 and
\* weight > 0, and otherwise the index of such an entry; with only "Towel" in
\* stock it returns the Towel index.
C3_SelectorPicksEligible ==
    pickResult # << >> =>
        LET picked == pickResult[1]
            count(i) == IF items[i + 1].label \in DOMAIN inv
                        THEN inv[items[i + 1].label] ELSE 0
            weight(i) == IF "weight" \in DOMAIN items[i + 1]
                         THEN items[i + 1].weight ELSE N(1)
            E == { i \in 0 .. Len(items) - 1 : count(i) > 0 /\ weight(i) > 0 }
        IN  /\ picked = -1 <=> E = {}
            /\ E # {} => picked \in E
            /\ (items = PRIZES /\ inv = TowelOnly) => picked = 6

\* a catalog whose first entry is out of stock and whose second is picked
C3_Witness ==
    /\ pickResult = << 1 >>
    /\ Len(items) = 2
    /\ items[1].label \notin DOMAIN inv \/ inv[items[1].label] <= 0

\* the wedges whose centre is within 5 degrees of the pointer
Pointed(rot) ==
    { i \in 0 .. n - 1 :
        LET m == (rot + centerDeg(i)) % N(360)
        IN  m <= N(5) \/ m >= N(360) - N(5) }

\* C4: a started spin is settled, once: the settlement decrements (clamped at
\* zero) the count of the label of the wedge the wheel was turned to, publishes
\* that label as the winner and returns to Idle.
C4_SpinSettles ==
    /\ [](Len(timers) = IF spinning THEN 1 ELSE 0)
    /\ [][op' = "settle" =>
            \E i \in Pointed(rotation) :
                LET label == PRIZES[i + 1].label
                    less == inventory[label] - N(1)
                IN  /\ winner' = label
                    /\ inventory'[label] = IF less >= 0 THEN less ELSE 0
                    /\ \A other \in DOMAIN inventory \ {label} :
                           inventory'[other] = inventory[other]
                    /\ ~spinning'
                    /\ timers' = << >>]_vars
    /\ spinning ~> ~spinning

\* the last Towel was won
C4_Witness ==
    /\ op = "settle" /\ winner = "Towel" /\ ~spinning
    /\ inventory["Towel"] = 0 /\ storage = JSONstringify(AllZero)

\* C5: between a spin's start and its settlement the inventory (of
\* non-negative integers) is not changed by any other operation.
C5_NoOperationWhileSpinning ==
    [][(/\ spinning /\ spinning'
        /\ \A label \in DOMAIN inventory :
               inventory[label] >= 0 /\ IsInteger(inventory[label]))
       => inventory' = inventory]_vars

\* C6: a spin adds to the rotation k full turns, k in {4, 5, 6}, the forward
\* delta in [0, 360) that brings the picked wedge under the pointer, and a
\* jitter in [-5, 5].
C6_RotationTarget ==
    [][rotation' # rotation =>
         \E k \in {4, 5, 6}, delta \in 0 .. N(360) - 1, jitter \in N(-5) .. N(5) :
             /\ rotation' = rotation + k * N(360) + delta + jitter
             /\ (rotation + delta + centerDeg(timers'[Len(timers')])) % N(360) = 0]_vars

\* C7: neither load nor save throws; a failed read or parse loads exactly the
\* defaults.
C7_StoreNeverThrows ==
    [][/\ phase' # "crashed"
       /\ (op' = "mount" /\ (getItemThrows \/ storage.kind # "json"))
          => inventory' = DEFAULT_INVENTORY]_vars

\* C8: the panel unlocks only on the exact password; a wrong attempt leaves it
\* locked with the error message and open for another attempt; opening or
\* closing locks it again; the inventory is replaced by a save only while the
\* panel is unlocked.
C8_AdminGate ==
    [][/\ op' = "submitAdminPassword" =>
            IF adminPass = "1234"
            THEN adminUnlocked' /\ adminError' = null
            ELSE ~adminUnlocked' /\ adminError' = "Wrong password." /\ showManage'
       /\ (~adminUnlocked /\ adminUnlocked') =>
              op' = "submitAdminPassword" /\ adminPass = "1234"
       /\ op' \in {"openManage", "closeManage"} => ~adminUnlocked'
       /\ op' = "saveDraft" => showManage /\ adminUnlocked
       /\ (inventory' # inventory /\ op' \notin {"mount", "settle"})
              => showManage /\ adminUnlocked]_vars

\* wrong, wrong, correct: two failures, then unlocked
C8_Witness == adminUnlocked /\ failedAttempts = 2 /\ op = "submitAdminPassword"

\* C9: saveDraft stores, for every label, the draft value clamped to a
\* non-negative integer: 0 for a negative or missing value, the floor of a
\* fractional one, a non-negative integer unchanged.
C9_SaveDraftClamps ==
    [][op' = "saveDraft" =>
         \A label \in uniquePrizeLabels :
             inventory'[label] =
                 IF label \notin DOMAIN inventoryDraft THEN 0
                 ELSE IF inventoryDraft[label] < 0 THEN 0
                 ELSE IF IsInteger(inventoryDraft[label]) THEN inventoryDraft[label]
                 ELSE inventoryDraft[label] - 1]_vars

\* a negative draft typed for "Pouch" was saved as 0
C9_Witness ==
    /\ op = "saveDraft"
    /\ "Pouch" \in editedLabels /\ inventoryDraft["Pouch"] < 0
    /\ inventory["Pouch"] = 0

\* C10, as claimed: a label not edited since the panel was opened keeps its
\* current count (a non-negative integer) when the draft is saved.
C10_SaveKeepsUnedited ==
    [][op' = "saveDraft" =>
         \A label \in uniquePrizeLabels \ editedLabels :
             (inventory[label] >= 0 /\ IsInteger(inventory[label]))
                 => inventory'[label] = inventory[label]]_vars

\* C10, amended: a label not edited is saved as the draft value copied when the
\* panel was opened (or reset), clamped; it keeps its current count only if
\* that count is a non-negative integer still equal to the draft value.
C10_SaveWritesDraftCopy ==
    [][op' = "saveDraft" =>
         \A label \in uniquePrizeLabels \ editedLabels :
             LET copy == inventoryDraft[label]
                 clamped == IF copy < 0 THEN 0 ELSE copy - (copy % 2)
             IN  /\ inventory'[label] = clamped
                 /\ (copy = inventory[label] /\ copy >= 0 /\ copy % 2 = 0)
                        => inventory'[label] = inventory[label]]_vars

\* a Towel was won while the panel was open, and the save put it back
C10_Witness ==
    /\ op = "saveDraft" /\ lastWinner = "Towel"
    /\ "Towel" \notin editedLabels
    /\ inventory["Towel"] = N(1)

====
